---- MODULE Spec2Model ----
(***************************************************************************)
(* A model of the Antigravity token extractor and replay client.           *)
(*                                                                         *)
(*   scripts/antigravity-token-extractor.py : watch_for_tokens,            *)
(*       extract_token_from_path, normalize_token, save_token,             *)
(*       find_existing_token                                               *)
(*   scripts/antigravity-replay-client.py   : CapturedSession.from_files,  *)
(*       CapturedSession.get_request_headers, AntigravityReplayClient,     *)
(*       main                                                              *)
(*                                                                         *)
(* The specifications below share the variables of the module; each one   *)
(* moves only its own groups of variables and leaves the others at rest:   *)
(*   SpecWatch     - the polling watcher, the candidate files, the clock   *)
(*   SpecClient    - the replay client: connection life cycle, the         *)
(*                   session it holds, the caller and the files on disk    *)
(*   SpecSession   - loading a captured session and building the headers   *)
(*   SpecChat      - one chat or list_models call, request to outcome      *)
(*   SpecNormalize - normalize_token                                       *)
(*   SpecFind      - find_existing_token                                   *)
(*   SpecSave      - save_token and the mode of the token file             *)
(*   SpecLoop      - the interactive loop of main and the user's interrupt *)
(***************************************************************************)
EXTENDS Integers, Sequences, FiniteSets, TLC

(***************************************************************************)
(* Bounds of the model.                                                    *)
(***************************************************************************)
\* number of candidate paths modelled (TOKEN_PATHS has ten)
NPaths == 2
\* modification times range over 0..MaxMtime
MaxMtime == 1
\* largest timeout_secs tried, in seconds
MaxTimeout == 2
\* clock resolution: ticks of the model's clock per second
TicksPerSec == 2
\* longest time, in ticks, that one pass over the candidate paths (the stat
\* and read calls) plus the overshoot of time.sleep may take
MaxLagTicks == 2
\* number of writes/deletions the external credential writer performs
MaxEnvEvents == 2

\* longest list of parts in the content of one response candidate
MaxParts == 2

\* largest magnitude of an expires_in tried, in seconds
MaxExpiresIn == 2

\* number of save_token calls made one after the other
MaxSaves == 2

\* number of lines the user enters at the prompt of the interactive loop
MaxTurns == 3

\* number of chat/list_models/close calls made on one client
MaxOps == 5
\* longest tokens history of a session file
MaxTokens == 2

\* time.sleep(1): the poll interval in seconds
SleepSecs == 1

Paths == 1 .. NPaths

(***************************************************************************)
(* Candidate file contents, by what the code can tell apart.               *)
(*   garbage        - not JSON                                             *)
(*   num            - JSON, a number (not a container)                     *)
(*   str_tok        - JSON, a string that contains "access_token"          *)
(*   obj_none       - JSON object without access_token and refresh_token   *)
(*   obj_tok        - JSON object with access_token                        *)
(*   obj_tok_badexp - JSON object with access_token and an expires_in      *)
(*                    that int() rejects                                   *)
(***************************************************************************)
Contents == {"garbage", "num", "str_tok", "obj_none", "obj_tok", "obj_tok_badexp"}

NoFile == [exists |-> FALSE, mtime |-> 0, content |-> "garbage"]

FileStates ==
    {NoFile} \cup [exists : {TRUE}, mtime : 0 .. MaxMtime, content : Contents]

VARIABLES
    \* ---- the file system and the clock (environment of the watcher)
    files,          \* candidate path -> file state
    envLeft,        \* external writer events still to come
    now,            \* time.time(), in ticks
    \* ---- watch_for_tokens
    wpc,            \* position of watch_for_tokens
    timeout_secs,   \* its argument
    initial_mtimes, \* the baseline: path -> mtime, for paths that existed
    start_time,     \* time.time() read once the baseline is taken (line 166)
    path,           \* loop variable of the scan
    current_mtime,  \* st_mtime read for path at the poll
    data,           \* content json.load returned at the poll ("none": nothing)
    wret,           \* value returned: "none" | "True" | "False"
    token_file      \* canonical token file: whether saved, from which path and content

VARIABLES
    \* ---- AntigravityReplayClient
    http_session,   \* self._http_session: 0 for None, else the id of a ClientSession
    conns,          \* every ClientSession created so far: id -> its state
                    \* ("open" | "closed") and the headers it was created with
    session_used,   \* the local `session` of the latest chat/list_models (0: none)
    last_op,        \* the latest call: "none" | "chat" | "list_models" | "close"
    last_result,    \* how it ended: returned, or the exception it raised
    nops            \* number of calls made so far

VARIABLES
    \* ---- CapturedSession.from_files and get_request_headers
    session_file,   \* the session file: missing, not JSON, or a JSON object
    headers_file,   \* DEFAULT_HEADERS_FILE: whether it exists, and its mapping
    spc,            \* "init" | "loaded" | "failed" | "headers"
    session,        \* the CapturedSession constructed (built: FALSE when none)
    load_error,     \* the exception from_files raised ("none": it returned)
    request_headers \* the mapping get_request_headers returned

VARIABLES
    \* ---- one chat or list_models call, step by step
    cpc,            \* "start" | "send" | "pending" | "done"
    call_op,        \* "chat" | "list_models"
    model,          \* the model argument of chat
    response,       \* the answer of the backend to the request
    requests_sent,  \* requests this call has sent to the backend
    outcome         \* how the call ended: the value returned or the exception

VARIABLES
    \* ---- one normalize_token call
    npc,            \* "start" | "done"
    raw,            \* its argument data: the keys it looks at
    ntime,          \* time.time(), in ticks
    token           \* the token it returned, or the exception it raised

VARIABLES
    \* ---- one find_existing_token call
    fpc,            \* "start" | "done"
    cand_files,     \* candidate path -> the file find_existing_token meets there
    found           \* the path it returned (0: None), or that it raised

VARIABLES
    \* ---- save_token and the file at OPDBUS_TOKEN_FILE
    svpc,           \* "idle" | "mkdir" | "open" | "dump" | "chmod" | "done" | "failed"
    out_file,       \* the file: whether it exists, its mode and what it holds
    umask,          \* the permission bits the process's umask takes away
    nsaves          \* save_token calls made so far

VARIABLES
    \* ---- get_captured_headers
    returned_headers \* the mapping it handed to the caller, as the caller has it

VARIABLES
    \* ---- the interactive loop of main
    lpc,            \* "input" | "pending" | "closing" | "ended"
    turns,          \* lines entered so far
    sent,           \* chat requests sent to the backend
    finished,       \* chat requests that reached their outcome
    cancel_pending, \* the interrupt handler asked for the task to be cancelled
    loop_exit       \* why the loop was left: "none" | "quit" | "interrupt" |
                    \* "cancelled" | "error"

sessVars == <<session_file, headers_file, spc, session, load_error, request_headers>>

clientVars == <<http_session, conns, session_used, last_op, last_result, nops>>

watchVars == <<files, envLeft, now, wpc, timeout_secs, initial_mtimes,
               start_time, path, current_mtime, data, wret,
               token_file>>

callVars == <<cpc, call_op, model, response, requests_sent, outcome>>

normVars == <<npc, raw, ntime, token>>

findVars == <<fpc, cand_files, found>>

saveVars == <<svpc, out_file, umask, nsaves>>

capVars == <<returned_headers>>

loopVars == <<lpc, turns, sent, finished, cancel_pending, loop_exit>>

vars == <<watchVars, clientVars, sessVars, callVars, normVars, findVars, saveVars,
          capVars, loopVars>>

\* what the actions of one specification leave alone
frameWatch == <<clientVars, sessVars, callVars, normVars, findVars, saveVars,
      capVars, loopVars>>

frameClient == <<watchVars, sessVars, callVars, normVars, findVars, saveVars,
      capVars, loopVars>>

frameSession == <<watchVars, clientVars, callVars, normVars, findVars, saveVars,
      capVars, loopVars>>

frameLoop == <<watchVars, sessVars, callVars, normVars, findVars, saveVars, capVars>>

\* what the caller's own steps around a client leave alone
frameCaller == <<watchVars, clientVars, callVars, normVars, findVars, saveVars, loopVars>>

frameCall == <<watchVars, sessVars, normVars, findVars, saveVars,
      capVars, loopVars>>

frameNorm == <<watchVars, clientVars, sessVars, callVars, findVars, saveVars,
      capVars, loopVars>>

frameFind == <<watchVars, clientVars, sessVars, callVars, normVars, saveVars,
      capVars, loopVars>>

frameSave == <<watchVars, clientVars, sessVars, callVars, normVars, findVars,
      capVars, loopVars>>

(***************************************************************************)
(* CapturedSession: from_files and get_request_headers.                    *)
(***************************************************************************)
\* header names that occur in captured sessions
HeaderKeys ==
    {"Authorization", "authorization", "AUTHORIZATION", "Content-Type",
     "X-Goog-Api-Client"}

\* header names the separate headers file may hold
OverlayKeys == {"authorization", "X-Goog-Api-Client"}

\* str.lower() on the header names above
Lower(k) ==
    CASE k = "Authorization" -> "authorization"
      [] k = "authorization" -> "authorization"
      [] k = "AUTHORIZATION" -> "authorization"
      [] k = "Content-Type" -> "content-type"
      [] k = "X-Goog-Api-Client" -> "x-goog-api-client"
      [] OTHER -> k

\* an entry of the tokens history; "absent" stands for a key that is missing
TokenEntries ==
    [access_token : {"absent", "", "tokA", "tokB"},
     captured_at : {"absent", "t1", "t2"}]

SeqsUpTo(S, n) == UNION {[1 .. k -> S] : k \in 0 .. n}

\* mappings from some of the keys K to the value v
Mappings(K, v) == UNION {[D -> {v}] : D \in SUBSET K}

EmptyMapping == [k \in {} |-> "none"]

NoSession ==
    [built |-> FALSE, access_token |-> "", headers |-> EmptyMapping,
     endpoints |-> <<>>, captured_at |-> "None"]

\* latest_token.get("access_token", "")
EntryAccessToken(e) == IF e.access_token = "absent" THEN "" ELSE e.access_token

\* latest_token.get("captured_at")
EntryCapturedAt(e) == IF e.captured_at = "absent" THEN "None" ELSE e.captured_at

\* mutant: the first entry of the history is taken
LatestToken_First(tokens) == tokens[1]

\* tokens[-1]
LatestToken(tokens) == tokens[Len(tokens)]

\* headers.update(file_headers)
Update(h, over) ==
    [k \in DOMAIN h \cup DOMAIN over |-> IF k \in DOMAIN over THEN over[k] ELSE h[k]]

\* data.get("tokens", []) followed by `if not tokens`
NoTokens(sf) == ~sf.has_tokens \/ sf.tokens = <<>>

\* from_files, lines 56-68: the exception raised, "none" when it goes on
FromFilesRaises(sf) ==
    IF sf.kind = "missing" THEN "FileNotFoundError"
    ELSE IF sf.kind = "garbage" THEN "JSONDecodeError"
    ELSE IF NoTokens(sf) THEN "ValueError"
    ELSE "none"

\* from_files, lines 70-87: the session constructed
FromFiles(sf, hf) ==
    [built |-> TRUE,
     access_token |-> EntryAccessToken(LatestToken(sf.tokens)),
     headers |-> IF hf.exists THEN Update(sf.headers, hf.headers) ELSE sf.headers,
     endpoints |-> sf.endpoints,
     captured_at |-> EntryCapturedAt(LatestToken(sf.tokens))]

\* f"Bearer {self.access_token}"
Bearer(tok) == "Bearer " \o tok

\* mutant: the comparison forgets .lower()
SkipsHeader_CaseSensitive(k) == k = "authorization"

\* line 99: the captured header is skipped
SkipsHeader(k) == Lower(k) = "authorization"

\* get_request_headers, lines 91-94: the headers set before the loop
BaseHeaders(tok) ==
    [k \in {"Authorization", "Content-Type"} |->
        IF k = "Authorization" THEN Bearer(tok) ELSE "application/json"]

\* mutant: a captured header does not replace a header set before the loop
GetRequestHeaders_BaseWins(sess) ==
    LET base == BaseHeaders(sess.access_token)
        kept == {k \in DOMAIN sess.headers : ~SkipsHeader(k)}
    IN  [k \in DOMAIN base \cup kept |->
            IF k \in DOMAIN base THEN base[k] ELSE sess.headers[k]]

\* get_request_headers, lines 97-103: captured headers are written over them
GetRequestHeaders(sess) ==
    LET base == BaseHeaders(sess.access_token)
        kept == {k \in DOMAIN sess.headers : ~SkipsHeader(k)}
    IN  [k \in DOMAIN base \cup kept |->
            IF k \in kept THEN sess.headers[k] ELSE base[k]]

SessionFiles ==
    {[kind |-> "missing", has_tokens |-> FALSE, tokens |-> <<>>, headers |-> EmptyMapping,
      endpoints |-> <<>>],
     [kind |-> "garbage", has_tokens |-> FALSE, tokens |-> <<>>, headers |-> EmptyMapping,
      endpoints |-> <<>>]}
    \cup [kind : {"object"}, has_tokens : {FALSE}, tokens : {<<>>},
          headers : Mappings(HeaderKeys, "captured"),
          endpoints : {<<"generateContent">>}]
    \cup [kind : {"object"}, has_tokens : {TRUE}, tokens : SeqsUpTo(TokenEntries, MaxTokens),
          headers : Mappings(HeaderKeys, "captured"),
          endpoints : {<<"generateContent">>}]

HeadersFiles ==
    {[exists |-> FALSE, headers |-> EmptyMapping]}
    \cup [exists : {TRUE}, headers : Mappings(OverlayKeys, "overlay")]

\* CapturedSession.from_files(session_file)
Load ==
    /\ spc = "init"
    /\ load_error' = FromFilesRaises(session_file)
    /\ IF FromFilesRaises(session_file) = "none"
          THEN /\ session' = FromFiles(session_file, headers_file)
               /\ spc' = "loaded"
          ELSE /\ session' = session
               /\ spc' = "failed"
    /\ UNCHANGED <<session_file, headers_file, request_headers>>
    /\ UNCHANGED frameSession

\* session.get_request_headers()
RequestHeaders ==
    /\ spc = "loaded"
    /\ request_headers' = GetRequestHeaders(session)
    /\ spc' = "headers"
    /\ UNCHANGED <<session_file, headers_file, session, load_error>>
    /\ UNCHANGED frameSession

\* the session part at rest (the other specifications)
InitSessionIdle ==
    /\ session_file = "none"
    /\ headers_file = "none"
    /\ spc = "none"
    /\ session = "none"
    /\ load_error = "none"
    /\ request_headers = "none"

\* the session and headers files are whatever the capture left on disk
InitSession ==
    /\ session_file \in SessionFiles
    /\ headers_file \in HeadersFiles
    /\ spc = "init"
    /\ session = NoSession
    /\ load_error = "none"
    /\ request_headers = EmptyMapping

(***************************************************************************)
(* json.load and the membership test on its result.                        *)
(***************************************************************************)
JsonParses(c) == c # "garbage"

\* 'access_token' in data raises TypeError when data is not a container
InRaises(c) == c = "num"

\* 'access_token' in data or 'refresh_token' in data
HasTokenKey(c) == c \in {"str_tok", "obj_tok", "obj_tok_badexp"}

\* the try block of the poll: the content is accepted
WatchAccepts(c) == JsonParses(c) /\ ~InRaises(c) /\ HasTokenKey(c)

\* normalize_token raises: data.get on a non-dict, int() on a bad expires_in
NormalizeRaises(c) == c \in {"num", "str_tok", "obj_tok_badexp"}

\* mutant: an unchanged mtime counts as modified
IsNewOrModified_Geq(p, m, base) ==
    p \notin DOMAIN base \/ m >= base[p]

\* path not in initial_mtimes or current_mtime > initial_mtimes.get(path, 0)
IsNewOrModified(p, m, base) ==
    p \notin DOMAIN base \/ m > base[p]

\* mutant: the loop test lets the pass at the deadline run
LoopContinues_Leq(t, start, timeout) ==
    t - start <= timeout * TicksPerSec

\* while time.time() - start_time < timeout_secs
LoopContinues(t, start, timeout) ==
    t - start < timeout * TicksPerSec

\* the baseline loop: mtime of every candidate path that exists
Baseline(fs) ==
    [p \in {q \in Paths : fs[q].exists} |-> fs[p].mtime]

(***************************************************************************)
(* The external process that writes the credential files.  The watcher     *)
(* looks at the files in the baseline loop, at the poll of each path and   *)
(* in the extraction; a write that lands while it tests the clock or       *)
(* sleeps is seen exactly as if it landed just before the next poll, so    *)
(* the writer is interleaved at the positions that precede a read.         *)
(***************************************************************************)
ReadPoints == {"idle", "poll", "extract"}

EnvWrite ==
    /\ envLeft > 0
    /\ wpc \in ReadPoints
    /\ \E p \in Paths, m \in 0 .. MaxMtime, c \in Contents :
          files' = [files EXCEPT ![p] = [exists |-> TRUE, mtime |-> m, content |-> c]]
    /\ envLeft' = envLeft - 1
    /\ UNCHANGED <<now, wpc, timeout_secs, initial_mtimes, start_time,
                   path, current_mtime, data, wret, token_file>>
    /\ UNCHANGED frameWatch

EnvDelete ==
    /\ envLeft > 0
    /\ wpc \in ReadPoints
    /\ \E p \in Paths :
          /\ files[p].exists
          /\ files' = [files EXCEPT ![p] = NoFile]
    /\ envLeft' = envLeft - 1
    /\ UNCHANGED <<now, wpc, timeout_secs, initial_mtimes, start_time,
                   path, current_mtime, data, wret, token_file>>
    /\ UNCHANGED frameWatch

(***************************************************************************)
(* watch_for_tokens                                                        *)
(***************************************************************************)
\* lines 156-166: the call, the baseline, start_time
WatchStart ==
    /\ wpc = "idle"
    /\ \E t \in 0 .. MaxTimeout : timeout_secs' = t
    /\ start_time' = now
    /\ initial_mtimes' = Baseline(files)
    /\ wpc' = "test"
    /\ UNCHANGED <<files, envLeft, now, path, current_mtime, data, wret, token_file>>
    /\ UNCHANGED frameWatch

\* line 167: the loop test
WatchTest ==
    /\ wpc = "test"
    /\ IF LoopContinues(now, start_time, timeout_secs)
          THEN /\ wpc' = "poll"
               /\ path' = 1
               /\ wret' = wret
          ELSE /\ wpc' = "timed_out"      \* lines 186-187
               /\ wret' = "False"
               /\ path' = path
    /\ UNCHANGED <<files, envLeft, now, timeout_secs, initial_mtimes, start_time,
                   current_mtime, data, token_file>>
    /\ UNCHANGED frameWatch

\* lines 168-181: one candidate path of the scan.  current_mtime and data are
\* locals that nothing reads once the path is passed over; they are kept only
\* for the path handed to extraction.
WatchPoll ==
    /\ wpc = "poll"
    /\ LET f == files[path]
           hit == /\ f.exists
                  /\ IsNewOrModified(path, f.mtime, initial_mtimes)
                  /\ WatchAccepts(f.content)
       IN  IF hit
              THEN /\ wpc' = "extract"       \* line 179
                   /\ current_mtime' = f.mtime
                   /\ data' = f.content
                   /\ path' = path
              ELSE /\ UNCHANGED <<current_mtime, data>>
                   /\ IF path < NPaths
                         THEN /\ wpc' = "poll"
                              /\ path' = path + 1
                         ELSE /\ wpc' = "sleep"
                              /\ path' = 1
    /\ UNCHANGED <<files, envLeft, now, timeout_secs, initial_mtimes, start_time,
                   wret, token_file>>
    /\ UNCHANGED frameWatch

\* lines 138-149 called from line 179: the file is read a second time, then
\* normalized and saved; any exception (the file is gone or no longer JSON,
\* normalize_token raises, save_token cannot write: saveOk) gives False
WatchExtract ==
    /\ wpc = "extract"
    /\ LET f == files[path]
       IN  \E saveOk \in BOOLEAN :
             IF f.exists /\ JsonParses(f.content) /\ ~NormalizeRaises(f.content) /\ saveOk
                THEN /\ token_file' = [saved |-> TRUE, source |-> path, content |-> f.content]
                     /\ wret' = "True"
                ELSE /\ token_file' = token_file
                     /\ wret' = "False"
    /\ wpc' = "returned"
    /\ UNCHANGED <<files, envLeft, now, timeout_secs, initial_mtimes, start_time,
                   path, current_mtime, data>>
    /\ UNCHANGED frameWatch

\* lines 183-184: time.sleep(1) sleeps at least one second.  The clock is read
\* next at the loop test, so the time the pass took is added here as well.
WatchSleep ==
    /\ wpc = "sleep"
    /\ \E lag \in 0 .. MaxLagTicks : now' = now + SleepSecs * TicksPerSec + lag
    /\ wpc' = "test"
    /\ UNCHANGED <<files, envLeft, timeout_secs, initial_mtimes, start_time,
                   path, current_mtime, data, wret, token_file>>
    /\ UNCHANGED frameWatch

InitWatch ==
    /\ files = [p \in Paths |-> NoFile]
    /\ envLeft = MaxEnvEvents
    /\ now = 0
    /\ wpc = "idle"
    /\ timeout_secs = 0
    /\ initial_mtimes = <<>>
    /\ start_time = 0
    /\ path = 1
    /\ current_mtime = 0
    /\ data = "none"
    /\ wret = "none"
    /\ token_file = [saved |-> FALSE, source |-> 0, content |-> "none"]

InitClient ==
    /\ http_session = 0
    /\ conns = <<>>
    /\ session_used = 0
    /\ last_op = "none"
    /\ last_result = [kind |-> "none", exc |-> "none", status |-> 0, msg |-> "none"]
    /\ nops = 0

\* no answer received
NoResponse ==
    [status |-> 0, body |-> "", has_candidates |-> FALSE, candidates |-> <<>>,
     usage |-> [has |-> FALSE, meta |-> "{}"], has_models |-> FALSE, models |-> <<>>]

\* no chat or list_models call is followed step by step
InitCallIdle ==
    /\ cpc = "idle"
    /\ call_op = "none"
    /\ model = "none"
    /\ response = "none"
    /\ requests_sent = 0
    /\ outcome = "none"

\* no normalize_token call is followed
InitNormIdle ==
    /\ npc = "idle"
    /\ raw = "none"
    /\ ntime = 0
    /\ token = "none"

\* no find_existing_token call is followed
InitFindIdle ==
    /\ fpc = "idle"
    /\ cand_files = "none"
    /\ found = "none"

\* no save_token call is followed
InitSaveIdle ==
    /\ svpc = "none"
    /\ out_file = "none"
    /\ umask = "none"
    /\ nsaves = 0

\* get_captured_headers was not called
InitCapIdle == returned_headers = "none"

\* the interactive loop is not run
InitLoopIdle ==
    /\ lpc = "none"
    /\ turns = 0
    /\ sent = 0
    /\ finished = 0
    /\ cancel_pending = FALSE
    /\ loop_exit = "none"

\* the parts of the program a specification does not move
InitIdle ==
    InitCallIdle /\ InitNormIdle /\ InitFindIdle /\ InitSaveIdle /\ InitCapIdle /\ InitLoopIdle
    /\ InitLoopIdle

NextWatch ==
    \/ EnvWrite
    \/ EnvDelete
    \/ WatchStart
    \/ WatchTest
    \/ WatchPoll
    \/ WatchExtract
    \/ WatchSleep

InitW == InitWatch /\ InitClient /\ InitSessionIdle /\ InitIdle

SpecWatch == InitW /\ [][NextWatch]_vars

(***************************************************************************)
(* AntigravityReplayClient: the connection life cycle.                     *)
(***************************************************************************)
\* mutant: a closed session is taken for a usable one
NeedsNewSession_NoClosedCheck(hs, cs) == hs = 0

\* self._http_session is None or self._http_session.closed
NeedsNewSession(hs, cs) == hs = 0 \/ cs[hs].state = "closed"

\* _get_http_session: the ClientSession objects after the call
GetHttpSessionConns(hs, cs, sess) ==
    IF NeedsNewSession(hs, cs)
       THEN Append(cs, [state |-> "open", headers |-> GetRequestHeaders(sess)])
       ELSE cs

\* _get_http_session: the value of self._http_session after the call
GetHttpSession(hs, cs) ==
    IF NeedsNewSession(hs, cs) THEN Len(cs) + 1 ELSE hs

\* close: self._http_session and not self._http_session.closed
CloseApplies(hs, cs) == hs # 0 /\ cs[hs].state = "open"

\* close: the ClientSession objects after the call
CloseConns(hs, cs) ==
    IF CloseApplies(hs, cs) THEN [cs EXCEPT ![hs].state = "closed"] ELSE cs

\* a call that returned normally
Returned == [kind |-> "return", exc |-> "none", status |-> 0, msg |-> "none"]

\* mutant: the error message leaves out the body of the answer
ApiError_NoBody(r) ==
    [kind |-> "raise", exc |-> "RuntimeError", status |-> r.status, msg |-> ""]

\* raise RuntimeError(f"API error {response.status}: {error_text}")
ApiError(r) ==
    [kind |-> "raise", exc |-> "RuntimeError", status |-> r.status, msg |-> r.body]

\* raise RuntimeError("No response candidates")
NoCandidates ==
    [kind |-> "raise", exc |-> "RuntimeError", status |-> 0,
     msg |-> "No response candidates"]

\* mutant: close dereferences self._http_session without testing it for None
CloseResult_NoNoneGuard(hs, cs) ==
    IF hs = 0
       THEN [kind |-> "raise", exc |-> "AttributeError", status |-> 0,
             msg |-> "'NoneType' object has no attribute 'closed'"]
       ELSE Returned

\* close: how the call ends
CloseResult(hs, cs) == Returned

\* what the backend may answer: the status, the raw body of an error answer
\* and the number of candidates of a success answer
Responses ==
    [status : {200}, body : {"json"}, candidates : 0 .. 1]
    \cup [status : {403, 500}, body : {"quota exceeded"}, candidates : {0}]

\* chat, lines 204-214: how the call ends for a given answer
ChatResult(r) ==
    IF r.status # 200 THEN ApiError(r)
    ELSE IF r.candidates = 0 THEN NoCandidates
    ELSE Returned

\* list_models, lines 233-240: how the call ends for a given answer
ListModelsResult(r) ==
    IF r.status # 200 THEN ApiError(r) ELSE Returned

\* mutant: a call that fails closes the ClientSession it used
ConnsAfterCall_CloseOnError(cs, hs, res) ==
    IF res.kind = "raise" THEN [cs EXCEPT ![hs].state = "closed"] ELSE cs

\* the ClientSession objects when the call ends: leaving the `async with
\* session.post(...)` block, by return or by raise, releases the response
\* only; the ClientSession is closed nowhere but in close
ConnsAfterCall(cs, hs, res) == cs

Chat ==
    /\ nops < MaxOps
    /\ \E r \in Responses :
          /\ last_result' = ChatResult(r)
          /\ conns' = ConnsAfterCall(GetHttpSessionConns(http_session, conns, session),
                                     GetHttpSession(http_session, conns), ChatResult(r))
    /\ http_session' = GetHttpSession(http_session, conns)
    /\ session_used' = GetHttpSession(http_session, conns)
    /\ last_op' = "chat"
    /\ nops' = nops + 1
    /\ UNCHANGED frameClient

ListModels ==
    /\ nops < MaxOps
    /\ \E r \in Responses :
          /\ last_result' = ListModelsResult(r)
          /\ conns' = ConnsAfterCall(GetHttpSessionConns(http_session, conns, session),
                                     GetHttpSession(http_session, conns), ListModelsResult(r))
    /\ http_session' = GetHttpSession(http_session, conns)
    /\ session_used' = GetHttpSession(http_session, conns)
    /\ last_op' = "list_models"
    /\ nops' = nops + 1
    /\ UNCHANGED frameClient

Close ==
    /\ nops < MaxOps
    /\ conns' = CloseConns(http_session, conns)
    /\ last_result' = CloseResult(http_session, conns)
    /\ last_op' = "close"
    /\ nops' = nops + 1
    /\ UNCHANGED <<http_session, session_used>>
    /\ UNCHANGED frameClient

\* mutant: get_captured_headers hands out the session's own mapping
GetCapturedHeaders_NoCopy(sess) ==
    [returned |-> TRUE, alias |-> TRUE, map |-> sess.headers]

\* get_captured_headers: self.session.headers.copy(), a mapping of its own
GetCapturedHeaders(sess) ==
    [returned |-> TRUE, alias |-> FALSE, map |-> sess.headers]

\* client.get_captured_headers()
CapturedHeaders ==
    /\ returned_headers' = GetCapturedHeaders(session)
    /\ returned_headers' # returned_headers
    /\ UNCHANGED sessVars
    /\ UNCHANGED frameCaller

\* h[k] = v on a mapping h
SetKey(h, k, v) == [j \in DOMAIN h \cup {k} |-> IF j = k THEN v ELSE h[j]]

\* del h[k] on a mapping h
DelKey(h, k) == [j \in DOMAIN h \ {k} |-> h[j]]

\* the caller changes the mapping get_captured_headers gave it: sets a
\* header or deletes one; an object shared with the session changes there too
CallerMutates ==
    /\ returned_headers.returned
    /\ \E k \in OverlayKeys :
          \E h \in {SetKey(returned_headers.map, k, "mutated"),
                     DelKey(returned_headers.map, k)} :
              /\ h # returned_headers.map
              /\ returned_headers' = [returned_headers EXCEPT !.map = h]
              /\ session' = IF returned_headers.alias
                                THEN [session EXCEPT !.headers = h]
                                ELSE session
    /\ UNCHANGED <<session_file, headers_file, spc, load_error, request_headers>>
    /\ UNCHANGED frameCaller

\* client.session.get_request_headers(), called on a client's session
SessionRequestHeaders ==
    /\ request_headers' = GetRequestHeaders(session)
    /\ request_headers' # request_headers
    /\ UNCHANGED <<session_file, headers_file, spc, session, load_error>>
    /\ UNCHANGED <<frameCaller, capVars>>

\* what a later capture leaves on disk: a session file with a newer token
\* and other headers, and a headers file
LaterCapture ==
    [session_file |->
        [kind |-> "object", has_tokens |-> TRUE,
         tokens |-> <<[access_token |-> "tokB", captured_at |-> "t2"]>>,
         headers |-> [k \in OverlayKeys |-> "captured"], endpoints |-> <<>>],
     headers_file |->
        [exists |-> TRUE, headers |-> [k \in OverlayKeys |-> "overlay"]]]

\* the files the session was loaded from are removed
FilesRemoved ==
    [session_file |->
        [kind |-> "missing", has_tokens |-> FALSE, tokens |-> <<>>,
         headers |-> EmptyMapping, endpoints |-> <<>>],
     headers_file |-> [exists |-> FALSE, headers |-> EmptyMapping]]

\* the session and headers files change on disk after the session was loaded
DiskChange ==
    /\ \E d \in {LaterCapture, FilesRemoved} :
          /\ session_file' = d.session_file
          /\ headers_file' = d.headers_file
    /\ <<session_file', headers_file'>> # <<session_file, headers_file>>
    /\ UNCHANGED <<spc, session, load_error, request_headers>>
    /\ UNCHANGED <<frameCaller, capVars>>

NextClient ==
    \/ Chat
    \/ ListModels
    \/ Close
    \/ CapturedHeaders
    \/ CallerMutates
    \/ SessionRequestHeaders
    \/ DiskChange

\* the sessions a client is constructed with: loaded from a session file
\* with one token entry
ClientSessions ==
    {FromFiles([kind |-> "object", has_tokens |-> TRUE, tokens |-> <<e>>, headers |-> h,
                endpoints |-> <<"generateContent">>],
               [exists |-> FALSE, headers |-> EmptyMapping]) :
        e \in TokenEntries, h \in Mappings(OverlayKeys, "captured")}

\* AntigravityReplayClient(session), lines 114-116
InitClientSession ==
    /\ session_file = [kind |-> "missing", has_tokens |-> FALSE, tokens |-> <<>>,
                       headers |-> EmptyMapping, endpoints |-> <<>>]
    /\ headers_file = [exists |-> FALSE, headers |-> EmptyMapping]
    /\ spc = "loaded"
    /\ session \in ClientSessions
    /\ load_error = "none"
    /\ request_headers = EmptyMapping

\* the caller holds no mapping from get_captured_headers yet
InitCaller ==
    returned_headers = [returned |-> FALSE, alias |-> FALSE, map |-> EmptyMapping]

InitC ==
    InitWatch /\ InitClient /\ InitClientSession /\ InitCallIdle /\ InitNormIdle
    /\ InitFindIdle /\ InitSaveIdle /\ InitCaller /\ InitLoopIdle

SpecClient == InitC /\ [][NextClient]_vars

NextSession ==
    \/ Load
    \/ RequestHeaders

InitS == InitWatch /\ InitClient /\ InitSession /\ InitIdle

SpecSession == InitS /\ [][NextSession]_vars

(***************************************************************************)
(* One chat or list_models call, followed from the request to its end.     *)
(***************************************************************************)
\* one part of a candidate's content: with a "text" key or without one
Parts ==
    {[has_text |-> TRUE, text |-> "Hello, "],
     [has_text |-> TRUE, text |-> "world!"],
     [has_text |-> FALSE, text |-> ""]}

\* one candidate: with content and its parts, or without a "content" key
Candidates ==
    [has_content : {TRUE}, parts : SeqsUpTo(Parts, MaxParts)]
    \cup {[has_content |-> FALSE, parts |-> <<>>]}

\* the "candidates" list of an answer: empty, one candidate, or two
CandidateLists ==
    {<<>>} \cup {<<c>> : c \in Candidates}
    \cup {<<c, d>> : c \in Candidates, d \in Candidates}

\* "usageMetadata" of an answer: absent, an empty object, or token counts
Usages ==
    {[has |-> FALSE, meta |-> "{}"],
     [has |-> TRUE, meta |-> "{}"],
     [has |-> TRUE, meta |-> "{totalTokenCount: 7}"]}

\* "models" of an answer to list_models
ModelLists == {<<>>, <<"gemini-2.0-flash">>}

\* error answers of the backend, with their raw body
ErrorResponses ==
    [status : {403, 500}, body : {"quota exceeded"}, has_candidates : {FALSE},
     candidates : {<<>>}, usage : {NoResponse.usage}, has_models : {FALSE},
     models : {<<>>}]

\* what the backend may answer to chat: status 200 or 201 with a JSON body
\* with or without "candidates", or an error
ChatResponses ==
    [status : {200, 201}, body : {"json"}, has_candidates : {TRUE},
     candidates : CandidateLists, usage : Usages, has_models : {FALSE},
     models : {<<>>}]
    \cup [status : {200, 201}, body : {"json"}, has_candidates : {FALSE},
          candidates : {<<>>}, usage : Usages, has_models : {FALSE},
          models : {<<>>}]
    \cup ErrorResponses

\* what the backend may answer to list_models
ModelsResponses ==
    [status : {200, 201}, body : {"json"}, has_candidates : {FALSE},
     candidates : {<<>>}, usage : {NoResponse.usage}, has_models : {TRUE},
     models : ModelLists]
    \cup [status : {200, 201}, body : {"json"}, has_candidates : {FALSE},
          candidates : {<<>>}, usage : {NoResponse.usage}, has_models : {FALSE},
          models : {<<>>}]
    \cup ErrorResponses

\* the model names a caller asks for
Models == {"gemini-2.0-flash", "gemini-1.5-pro"}

\* result.get("candidates", [])
GetCandidates(r) == IF r.has_candidates THEN r.candidates ELSE <<>>

\* mutant: the parts are taken from the last candidate
FirstParts_Last(cands) ==
    IF cands[Len(cands)].has_content THEN cands[Len(cands)].parts ELSE <<>>

\* candidates[0].get("content", {}).get("parts", [])
FirstParts(cands) == IF cands[1].has_content THEN cands[1].parts ELSE <<>>

\* "".join(text_parts), text_parts holding part["text"] of every part with
\* a "text" key, in the order of the loop of lines 217-219
RECURSIVE JoinTextParts(_)
JoinTextParts(parts) ==
    IF parts = <<>> THEN ""
    ELSE IF Head(parts).has_text
            THEN Head(parts).text \o JoinTextParts(Tail(parts))
            ELSE JoinTextParts(Tail(parts))

\* result.get("usageMetadata", {})
GetUsage(r) == IF r.usage.has THEN r.usage.meta ELSE "{}"

\* chat, lines 204-225: how the call ends for the answer r
ChatOutcome(r, m) ==
    IF r.status # 200 THEN ApiError(r)
    ELSE IF GetCandidates(r) = <<>> THEN NoCandidates
    ELSE [kind |-> "return", exc |-> "none", status |-> 0, msg |-> "none",
          text |-> JoinTextParts(FirstParts(GetCandidates(r))),
          model |-> m, usage |-> GetUsage(r)]

\* list_models, lines 233-240: how the call ends for the answer r
ListModelsOutcome(r) ==
    IF r.status # 200 THEN ApiError(r)
    ELSE [kind |-> "return", exc |-> "none", status |-> 0, msg |-> "none",
          models |-> IF r.has_models THEN r.models ELSE <<>>]

\* mutant: a call that failed goes back to sending its request
AfterResponse_Retry(o) == IF o.kind = "raise" THEN "send" ELSE "done"

\* past the `async with session.post(...)` block the call is over: every
\* path through it is a return or a raise
AfterResponse(o) == "done"

\* lines 167-199 and 230-231: take the connection, build the request
CallStart ==
    /\ cpc = "start"
    /\ conns' = GetHttpSessionConns(http_session, conns, session)
    /\ http_session' = GetHttpSession(http_session, conns)
    /\ session_used' = GetHttpSession(http_session, conns)
    /\ last_op' = call_op
    /\ nops' = nops + 1
    /\ cpc' = "send"
    /\ UNCHANGED <<last_result, call_op, model, response, requests_sent, outcome>>
    /\ UNCHANGED frameCall

\* session.post(url, json=request_body) / session.get(url): the request
\* goes out and the backend answers
CallSend ==
    /\ cpc = "send"
    /\ requests_sent' = requests_sent + 1
    /\ response' \in (IF call_op = "chat" THEN ChatResponses ELSE ModelsResponses)
    /\ cpc' = "pending"
    /\ UNCHANGED <<call_op, model, outcome>>
    /\ UNCHANGED <<clientVars, frameCall>>

\* the body of the `async with` block: the status test and the result
CallRespond ==
    /\ cpc = "pending"
    /\ outcome' = (IF call_op = "chat" THEN ChatOutcome(response, model)
                                       ELSE ListModelsOutcome(response))
    /\ cpc' = AfterResponse(outcome')
    /\ UNCHANGED <<call_op, model, response, requests_sent>>
    /\ UNCHANGED <<clientVars, frameCall>>

NextCall ==
    \/ CallStart
    \/ CallSend
    \/ CallRespond

\* a caller about to call chat(message, model) or list_models()
InitCall ==
    /\ cpc = "start"
    /\ call_op \in {"chat", "list_models"}
    /\ model \in Models
    /\ response = NoResponse
    /\ requests_sent = 0
    /\ outcome = [kind |-> "none", exc |-> "none", status |-> 0, msg |-> "none"]

InitK ==
    InitWatch /\ InitClient /\ InitClientSession /\ InitCall /\ InitNormIdle
    /\ InitFindIdle /\ InitSaveIdle /\ InitCapIdle /\ InitLoopIdle

SpecChat == InitK /\ [][NextCall]_vars

(***************************************************************************)
(* normalize_token.  Times are in ticks (TicksPerSec to the second), so    *)
(* that a value with a fraction of a second can be told from a whole one.  *)
(***************************************************************************)
\* a key that data does not have
Absent == [has |-> FALSE, kind |-> "none", val |-> 0]

\* a number of ticks
Num(v) == [has |-> TRUE, kind |-> "num", val |-> v]

\* values of data['expires_at']: a number, a string or null
ExpiresAtValues ==
    {Num(TicksPerSec), [has |-> TRUE, kind |-> "str", val |-> 0],
     [has |-> TRUE, kind |-> "null", val |-> 0]}

\* values of data['expires_in']: a number, whole or with a fraction, a
\* string of digits, another string, or null
ExpiresInValues ==
    {Num(v) : v \in -(MaxExpiresIn * TicksPerSec) .. MaxExpiresIn * TicksPerSec}
    \cup {[has |-> TRUE, kind |-> "intstr", val |-> n * TicksPerSec] :
              n \in -MaxExpiresIn .. MaxExpiresIn}
    \cup {[has |-> TRUE, kind |-> "str", val |-> 0],
          [has |-> TRUE, kind |-> "null", val |-> 0]}

\* values of data['expiry']: an ISO string (val: the instant it denotes),
\* another string, or a value that is not a string
ExpiryValues ==
    {[has |-> TRUE, kind |-> "iso", val |-> TicksPerSec],
     [has |-> TRUE, kind |-> "str", val |-> 0],
     [has |-> TRUE, kind |-> "num", val |-> TicksPerSec]}

\* the data objects normalize_token is called with
RawTokens ==
    [access_token : BOOLEAN, token_type : BOOLEAN,
     expires_at : {Absent} \cup ExpiresAtValues,
     expires_in : {Absent} \cup ExpiresInValues,
     expiry : {Absent} \cup ExpiryValues]

\* int(x) raises: ValueError for a string that is not an integer literal,
\* TypeError for None
IntRaises(x) == x.kind \in {"str", "null"}

\* int(x), in ticks: a number loses its fraction (towards zero), a string
\* of digits gives its value
IntOf(x) ==
    IF x.kind = "num"
       THEN IF x.val >= 0 THEN (x.val \div TicksPerSec) * TicksPerSec
                          ELSE -(((-x.val) \div TicksPerSec) * TicksPerSec)
       ELSE x.val

\* datetime.fromisoformat(data['expiry'].replace('Z', '+00:00')) raises:
\* AttributeError for a value without replace, ValueError for a string that
\* is not in ISO format
ExpiryRaises(x) == x.kind # "iso"

\* mutant: expires_in is looked at before expires_at
ExpiryBranch_InFirst(d) ==
    IF d.expires_in.has THEN "expires_in"
    ELSE IF d.expires_at.has THEN "expires_at"
    ELSE IF d.expiry.has THEN "expiry"
    ELSE "none"

\* the if/elif chain of lines 111-115
ExpiryBranch(d) ==
    IF d.expires_at.has THEN "expires_at"
    ELSE IF d.expires_in.has THEN "expires_in"
    ELSE IF d.expiry.has THEN "expiry"
    ELSE "none"

\* normalize_token raises: only int() of line 114 is outside a try
NormalizeTokenRaises(d) ==
    ExpiryBranch(d) = "expires_in" /\ IntRaises(d.expires_in)

\* token['expires_at'] of the token returned (Absent: the key is not set)
ExpiresAt(d, t) ==
    CASE ExpiryBranch(d) = "expires_at" -> d.expires_at
      [] ExpiryBranch(d) = "expires_in" -> Num(t + IntOf(d.expires_in))
      [] ExpiryBranch(d) = "expiry" ->
            IF ExpiryRaises(d.expiry) THEN Absent ELSE Num(d.expiry.val)
      [] OTHER -> Absent

\* the token built at time t0 (line 101), with time.time() = t at line 114
NormalizeToken(d, t0, t) ==
    IF NormalizeTokenRaises(d)
       THEN [raised |-> TRUE, access_token |-> "", token_type |-> "",
             saved_at |-> 0, expires_in |-> Absent, expires_at |-> Absent]
       ELSE [raised |-> FALSE,
             access_token |-> IF d.access_token THEN "ya29.x" ELSE "",
             token_type |-> IF d.token_type THEN "MAC" ELSE "Bearer",
             saved_at |-> t0,
             expires_in |-> d.expires_in,
             expires_at |-> ExpiresAt(d, t)]

\* the whole call; the clock may advance between its two readings
Normalize ==
    /\ npc = "start"
    /\ \E t \in ntime .. ntime + 1 :
          /\ token' = NormalizeToken(raw, ntime, t)
          /\ ntime' = t
    /\ npc' = "done"
    /\ UNCHANGED raw
    /\ UNCHANGED frameNorm

NextNorm ==
    \/ Normalize

\* a caller about to call normalize_token(data, source)
InitNorm ==
    /\ npc = "start"
    /\ raw \in RawTokens
    /\ ntime \in 0 .. 1
    /\ token = Absent

InitN ==
    InitWatch /\ InitClient /\ InitSessionIdle /\ InitCallIdle /\ InitNorm
    /\ InitFindIdle /\ InitSaveIdle /\ InitCapIdle /\ InitLoopIdle

SpecNormalize == InitN /\ [][NextNorm]_vars

(***************************************************************************)
(* find_existing_token.                                                    *)
(***************************************************************************)
\* a candidate path with no file
NoCandidateFile ==
    [exists |-> FALSE, mtime |-> 0, content |-> "garbage", readable |-> FALSE]

\* what find_existing_token can meet at a candidate path: no file, or a
\* file with a modification time and a content, that open() can read or not
CandidateFiles ==
    {NoCandidateFile}
    \cup [exists : {TRUE}, mtime : 0 .. MaxMtime, content : Contents,
          readable : BOOLEAN]

\* the scan of lines 80-90 from path i on: the path returned (0 for None),
\* or the exception that leaves the function
RECURSIVE FindFrom(_, _)
FindFrom(fs, i) ==
    IF i > NPaths THEN [raised |-> FALSE, path |-> 0]
    ELSE IF ~fs[i].exists THEN FindFrom(fs, i + 1)
    ELSE IF ~fs[i].readable \/ ~JsonParses(fs[i].content) THEN FindFrom(fs, i + 1)
    ELSE IF InRaises(fs[i].content) THEN [raised |-> TRUE, path |-> 0]
    ELSE IF HasTokenKey(fs[i].content) THEN [raised |-> FALSE, path |-> i]
    ELSE FindFrom(fs, i + 1)

\* find_existing_token()
FindExistingToken(fs) == FindFrom(fs, 1)

\* the whole call
Find ==
    /\ fpc = "start"
    /\ found' = FindExistingToken(cand_files)
    /\ fpc' = "done"
    /\ UNCHANGED cand_files
    /\ UNCHANGED frameFind

NextFind ==
    \/ Find

\* a caller about to call find_existing_token(), whatever the files are
InitFind ==
    /\ fpc = "start"
    /\ cand_files \in [Paths -> CandidateFiles]
    /\ found = [raised |-> FALSE, path |-> 0]

InitF ==
    InitWatch /\ InitClient /\ InitSessionIdle /\ InitCallIdle /\ InitNormIdle
    /\ InitFind /\ InitSaveIdle /\ InitCapIdle /\ InitLoopIdle

SpecFind == InitF /\ [][NextFind]_vars

(***************************************************************************)
(* save_token and the permissions of the token file.                       *)
(***************************************************************************)
\* permission bits: read and write for the owner, the group and the others
PermBits == {"ur", "uw", "gr", "gw", "or", "ow"}

\* mode 0o666, asked for by open(..., 'w') when it creates the file
CreateMode == PermBits

\* mode 0o600 of os.chmod(OPDBUS_TOKEN_FILE, 0o600)
OwnerOnly == {"ur", "uw"}

\* the umasks a process runs with: 0o000, 0o022, 0o027, 0o077
Umasks == {{}, {"gw", "ow"}, {"gw", "or", "ow"}, {"gr", "gw", "or", "ow"}}

\* no file at the output path
NoOutFile == [exists |-> FALSE, mode |-> {}, content |-> "none"]

\* open(OPDBUS_TOKEN_FILE, 'w'): a file that exists is emptied and keeps its
\* mode, a new one gets the mode asked for less the umask
OpenForWrite(f, um) ==
    IF f.exists THEN [f EXCEPT !.content = "empty"]
                ELSE [exists |-> TRUE, mode |-> CreateMode \ um, content |-> "empty"]

\* the next save_token call begins; the process may run under any umask
SaveCall ==
    /\ svpc \in {"idle", "done", "failed"}
    /\ nsaves < MaxSaves
    /\ nsaves' = nsaves + 1
    /\ umask' \in Umasks
    /\ svpc' = "mkdir"
    /\ UNCHANGED out_file
    /\ UNCHANGED frameSave

\* line 129: OPDBUS_TOKEN_FILE.parent.mkdir(parents=True, exist_ok=True)
SaveMkdir ==
    /\ svpc = "mkdir"
    /\ \E ok \in BOOLEAN : svpc' = IF ok THEN "open" ELSE "failed"
    /\ UNCHANGED <<out_file, umask, nsaves>>
    /\ UNCHANGED frameSave

\* line 131: open(OPDBUS_TOKEN_FILE, 'w')
SaveOpen ==
    /\ svpc = "open"
    /\ \E ok \in BOOLEAN :
          IF ok THEN /\ out_file' = OpenForWrite(out_file, umask)
                     /\ svpc' = "dump"
                ELSE /\ out_file' = out_file
                     /\ svpc' = "failed"
    /\ UNCHANGED <<umask, nsaves>>
    /\ UNCHANGED frameSave

\* line 132 and the end of the with block: json.dump writes the token;
\* a write that fails leaves the part already written
SaveDump ==
    /\ svpc = "dump"
    /\ \E ok \in BOOLEAN :
          IF ok THEN /\ out_file' = [out_file EXCEPT !.content = "token"]
                     /\ svpc' = "chmod"
                ELSE /\ out_file' = [out_file EXCEPT !.content = "partial"]
                     /\ svpc' = "failed"
    /\ UNCHANGED <<umask, nsaves>>
    /\ UNCHANGED frameSave

\* line 134: os.chmod(OPDBUS_TOKEN_FILE, 0o600)
SaveChmod ==
    /\ svpc = "chmod"
    /\ \E ok \in BOOLEAN :
          IF ok THEN /\ out_file' = [out_file EXCEPT !.mode = OwnerOnly]
                     /\ svpc' = "done"
                ELSE /\ out_file' = out_file
                     /\ svpc' = "failed"
    /\ UNCHANGED <<umask, nsaves>>
    /\ UNCHANGED frameSave

NextSave ==
    \/ SaveCall
    \/ SaveMkdir
    \/ SaveOpen
    \/ SaveDump
    \/ SaveChmod

\* before the first save: no file at the output path, or an empty file
\* somebody created there, with any mode
InitSave ==
    /\ svpc = "idle"
    /\ out_file \in {NoOutFile}
                    \cup [exists : {TRUE}, mode : {CreateMode \ um : um \in Umasks},
                          content : {"empty"}]
    /\ umask \in Umasks
    /\ nsaves = 0

InitP ==
    InitWatch /\ InitClient /\ InitSessionIdle /\ InitCallIdle /\ InitNormIdle
    /\ InitFindIdle /\ InitSave /\ InitCapIdle /\ InitLoopIdle

SpecSave == InitP /\ [][NextSave]_vars

(***************************************************************************)
(* The interactive loop of main, lines 318-338, and the user's interrupt.  *)
(* What SIGINT does depends on the interpreter: it raises                  *)
(* KeyboardInterrupt where the main thread is, or (asyncio.run of Python   *)
(* 3.11 and later) it cancels the main task, which sees CancelledError at  *)
(* its next suspension.  Both are possible outcomes of an interrupt.       *)
(***************************************************************************)
\* the user enters a message: chat takes the connection and sends the request
LoopMessage ==
    /\ lpc = "input"
    /\ turns < MaxTurns
    /\ turns' = turns + 1
    /\ conns' = GetHttpSessionConns(http_session, conns, session)
    /\ http_session' = GetHttpSession(http_session, conns)
    /\ session_used' = GetHttpSession(http_session, conns)
    /\ last_op' = "chat"
    /\ nops' = nops + 1
    /\ sent' = sent + 1
    /\ lpc' = "pending"
    /\ UNCHANGED <<last_result, finished, cancel_pending, loop_exit>>
    /\ UNCHANGED frameLoop

\* the user enters an empty line (continue) or quit/exit/q (break)
LoopOtherInput ==
    /\ lpc = "input"
    /\ turns < MaxTurns
    /\ turns' = turns + 1
    /\ \E quit \in BOOLEAN :
          IF quit THEN lpc' = "closing" /\ loop_exit' = "quit"
                  ELSE lpc' = "input" /\ loop_exit' = loop_exit
    /\ UNCHANGED <<sent, finished, cancel_pending>>
    /\ UNCHANGED <<clientVars, frameLoop>>

\* the pending request reaches its outcome: chat returns, and the loop goes
\* back to the prompt, or raises RuntimeError, which no except clause of
\* the loop catches; a task that was asked to be cancelled is cancelled at
\* this suspension instead
LoopResponse ==
    /\ lpc = "pending"
    /\ ~cancel_pending
    /\ finished' = finished + 1
    /\ \E r \in Responses :
          /\ last_result' = ChatResult(r)
          /\ IF ChatResult(r).kind = "return"
                THEN lpc' = "input" /\ loop_exit' = loop_exit
                ELSE lpc' = "closing" /\ loop_exit' = "error"
    /\ UNCHANGED <<http_session, conns, session_used, last_op, nops>>
    /\ UNCHANGED <<turns, sent, cancel_pending>>
    /\ UNCHANGED frameLoop

\* the user's interrupt while input() waits: KeyboardInterrupt is caught and
\* the loop left (line 329), or the handler asks for the task's cancellation
\* and input() goes on waiting
InterruptAtInput ==
    /\ lpc = "input"
    /\ ~cancel_pending
    /\ \E raises \in BOOLEAN :
          IF raises
             THEN lpc' = "closing" /\ loop_exit' = "interrupt"
                  /\ cancel_pending' = cancel_pending
             ELSE lpc' = lpc /\ loop_exit' = loop_exit /\ cancel_pending' = TRUE
    /\ UNCHANGED <<turns, sent, finished>>
    /\ UNCHANGED <<clientVars, frameLoop>>

\* the user's interrupt while the request is pending: KeyboardInterrupt
\* leaves `await client.chat(...)` for the except clause of line 329, or the
\* task is cancelled and CancelledError leaves the loop; the request is
\* given up either way
InterruptAtRequest ==
    /\ lpc = "pending"
    /\ ~cancel_pending
    /\ \E raises \in BOOLEAN :
          loop_exit' = IF raises THEN "interrupt" ELSE "cancelled"
    /\ lpc' = "closing"
    /\ UNCHANGED <<turns, sent, finished, cancel_pending>>
    /\ UNCHANGED <<clientVars, frameLoop>>

\* a cancellation asked for earlier reaches the task at the suspension of
\* the request
LoopCancelled ==
    /\ lpc = "pending"
    /\ cancel_pending
    /\ cancel_pending' = FALSE
    /\ loop_exit' = "cancelled"
    /\ lpc' = "closing"
    /\ UNCHANGED <<turns, sent, finished>>
    /\ UNCHANGED <<clientVars, frameLoop>>

\* finally: await client.close()
LoopClose ==
    /\ lpc = "closing"
    /\ conns' = CloseConns(http_session, conns)
    /\ last_result' = CloseResult(http_session, conns)
    /\ last_op' = "close"
    /\ nops' = nops + 1
    /\ lpc' = "ended"
    /\ UNCHANGED <<http_session, session_used>>
    /\ UNCHANGED <<turns, sent, finished, cancel_pending, loop_exit>>
    /\ UNCHANGED frameLoop

NextLoop ==
    \/ LoopMessage
    \/ LoopOtherInput
    \/ LoopResponse
    \/ InterruptAtInput
    \/ InterruptAtRequest
    \/ LoopCancelled
    \/ LoopClose

\* main has built the client and entered the loop
InitLoop ==
    /\ lpc = "input"
    /\ turns = 0
    /\ sent = 0
    /\ finished = 0
    /\ cancel_pending = FALSE
    /\ loop_exit = "none"

InitL ==
    InitWatch /\ InitClient /\ InitClientSession /\ InitCallIdle /\ InitNormIdle
    /\ InitFindIdle /\ InitSaveIdle /\ InitCapIdle /\ InitLoop

SpecLoop == InitL /\ [][NextLoop]_vars

(***************************************************************************)
(* Claims about watch_for_tokens (checked under SpecWatch).                *)
(***************************************************************************)
Elapsed == now - start_time

\* the content read at the poll passed the check of line 177
TokenContents == {"str_tok", "obj_tok", "obj_tok_badexp"}

C2_QualifiedMeansSuccess ==
    wpc = "returned" =>
        /\ wret = "True"
        /\ token_file.saved
        /\ token_file.source = path

\* C3: watch returns success only for a path that qualified against the
\* baseline taken once at watch start: the path existed at the poll, it was
\* absent from the baseline or its mtime read at the poll is strictly greater
\* than its baseline value, and its content passed the token-key check; the
\* baseline is the files' mtimes at the call and never changes afterwards.
C3_QualifiedAgainstBaseline ==
    /\ [](wpc \in {"extract", "returned"} =>
            /\ path \notin DOMAIN initial_mtimes \/ current_mtime > initial_mtimes[path]
            /\ data \in TokenContents)
    /\ [](wret = "True" => wpc = "returned")
    /\ [][wpc = "poll" /\ wpc' = "extract" =>
            /\ files[path].exists
            /\ path' = path
            /\ current_mtime' = files[path].mtime
            /\ data' = files[path].content]_vars
    /\ [][wpc = "idle" /\ wpc' # "idle" =>
            initial_mtimes' = [p \in {q \in Paths : files[q].exists} |-> files[p].mtime]]_vars
    /\ [][wpc # "idle" => initial_mtimes' = initial_mtimes]_vars

\* C3 witness: a path of the baseline was rewritten with a newer mtime and
\* watch returned success for it.
C3_Witness ==
    /\ wpc = "returned"
    /\ wret = "True"
    /\ path \in DOMAIN initial_mtimes
    /\ current_mtime > initial_mtimes[path]

(***************************************************************************)
(* Claims about AntigravityReplayClient (checked under SpecClient).        *)
(***************************************************************************)
\* the ClientSession objects of cs that are open
OpenIn(cs) == {i \in 1 .. Len(cs) : cs[i].state = "open"}

\* C4: no connection exists before the first outbound call; an outbound call
\* made while a connection is open uses that connection and creates none; an
\* outbound call made with no open connection (never connected, or closed)
\* creates one fresh connection and uses it; close releases the connection
\* and creates none; at every moment at most one connection is open, and it
\* is the one the client holds.
C4_ConnectionLifecycle ==
    /\ [](nops = 0 => conns = <<>> /\ http_session = 0)
    /\ [](Cardinality(OpenIn(conns)) <= 1)
    /\ [](OpenIn(conns) # {} => OpenIn(conns) = {http_session})
    /\ [][nops' = nops + 1 /\ last_op' = "close" =>
            /\ Len(conns') = Len(conns)
            /\ OpenIn(conns') = {}]_vars
    /\ [][nops' = nops + 1 /\ last_op' \in {"chat", "list_models"} =>
            IF OpenIn(conns) # {}
               THEN /\ conns' = conns
                    /\ http_session' = http_session
                    /\ session_used' = http_session
               ELSE /\ Len(conns') = Len(conns) + 1
                    /\ \A i \in 1 .. Len(conns) : conns'[i] = conns[i]
                    /\ conns'[Len(conns')].state = "open"
                    /\ http_session' = Len(conns')
                    /\ session_used' = Len(conns')]_vars

\* C4 witness: a connection was created, closed, and the next outbound call
\* created and used a second one.
C4_Witness ==
    /\ Len(conns) = 2
    /\ conns[1].state = "closed"
    /\ conns[2].state = "open"
    /\ session_used = 2
    /\ last_op \in {"chat", "list_models"}

\* C5: close raises no error in any state, leaves no connection open, and
\* when no connection is open (never connected, or already closed) it changes
\* nothing, so that a second close equals a single close.
C5_CloseIdempotent ==
    [][nops' = nops + 1 /\ last_op' = "close" =>
            /\ last_result' = Returned
            /\ OpenIn(conns') = {}
            /\ OpenIn(conns) = {} =>
                   /\ conns' = conns
                   /\ http_session' = http_session]_vars

\* C5 witness: close was called twice on a client that never connected.
C5_Witness ==
    /\ nops = 2
    /\ last_op = "close"
    /\ conns = <<>>
    /\ last_result = Returned

(***************************************************************************)
(* Claims about CapturedSession (checked under SpecSession).               *)
(***************************************************************************)
\* C6: loading fails closed: a CapturedSession that is constructed has a
\* non-empty access_token.
C6_LoadFailsClosed ==
    session.built => session.access_token # ""

\* the session files of C7: missing, without a tokens field, with empty tokens
C7_Cases ==
    {[kind |-> "missing", has_tokens |-> FALSE, tokens |-> <<>>, headers |-> EmptyMapping,
      endpoints |-> <<>>],
     [kind |-> "object", has_tokens |-> FALSE, tokens |-> <<>>, headers |-> EmptyMapping,
      endpoints |-> <<"generateContent">>],
     [kind |-> "object", has_tokens |-> TRUE, tokens |-> <<>>, headers |-> EmptyMapping,
      endpoints |-> <<"generateContent">>]}

\* C7: when the session file is missing, has no tokens field or has an empty
\* tokens array, load fails, constructs no session, and the error is of one
\* single kind: the kind raised is the kind raised in each of the three cases.
C7_SingleErrorKind ==
    (spc # "init" /\ (session_file.kind = "missing" \/
                      (session_file.kind = "object" /\ NoTokens(session_file)))) =>
        /\ spc = "failed"
        /\ ~session.built
        /\ load_error # "none"
        /\ \A sf \in C7_Cases : FromFilesRaises(sf) = load_error

\* C8: for a non-empty tokens history the session's access_token and
\* captured_at are those of the last element of the array, whatever the
\* captured_at values of the entries.
C8_LastEntryWins ==
    spc \in {"loaded", "headers"} =>
        LET e == session_file.tokens[Len(session_file.tokens)]
        IN  /\ session.built
            /\ session.access_token =
                  (IF e.access_token = "absent" THEN "" ELSE e.access_token)
            /\ session.captured_at =
                  (IF e.captured_at = "absent" THEN "None" ELSE e.captured_at)

\* C8 witness: a history whose first entry carries the later captured_at and
\* another token; the session holds the last entry's token.
C8_Witness ==
    /\ spc = "loaded"
    /\ Len(session_file.tokens) >= 2
    /\ session_file.tokens[1].captured_at = "t2"
    /\ session_file.tokens[1].access_token = "tokA"
    /\ LatestToken(session_file.tokens) = [access_token |-> "tokB", captured_at |-> "t1"]
    /\ session.access_token = "tokB"

\* C9: the result of get_request_headers has exactly one key that equals
\* "authorization" case-insensitively, the key "Authorization", and its value
\* is "Bearer <access_token>".
C9_OnlySynthesizedAuthorization ==
    spc = "headers" =>
        /\ {k \in DOMAIN request_headers : Lower(k) = "authorization"} = {"Authorization"}
        /\ request_headers["Authorization"] = "Bearer " \o session.access_token

\* C9 witness: the captured headers held authorization entries in two letter
\* cases, one of them spelled exactly as the synthesized key.
C9_Witness ==
    /\ spc = "headers"
    /\ {"Authorization", "AUTHORIZATION"} \subseteq DOMAIN session.headers

\* the captured headers other than authorization, in any letter case
C10_Kept == {k \in DOMAIN session.headers : Lower(k) # "authorization"}

\* C10 (as stated): the result contains Content-Type: application/json, the
\* synthesized Authorization, every captured header other than authorization
\* with its captured value, and nothing else.
C10_HeadersAsStated ==
    spc = "headers" =>
        /\ DOMAIN request_headers = {"Authorization", "Content-Type"} \cup C10_Kept
        /\ request_headers["Content-Type"] = "application/json"
        /\ request_headers["Authorization"] = "Bearer " \o session.access_token
        /\ \A k \in C10_Kept : request_headers[k] = session.headers[k]

\* C10 (amended): the result contains the synthesized Authorization, every
\* captured header other than authorization with its captured value, the
\* entry Content-Type: application/json unless a captured header is named
\* exactly "Content-Type" (the captured value then replaces it), and nothing
\* else.
C10_HeadersContent ==
    spc = "headers" =>
        /\ DOMAIN request_headers = {"Authorization", "Content-Type"} \cup C10_Kept
        /\ "Content-Type" \notin C10_Kept =>
               request_headers["Content-Type"] = "application/json"
        /\ request_headers["Authorization"] = "Bearer " \o session.access_token
        /\ \A k \in C10_Kept : request_headers[k] = session.headers[k]

\* C10 witness: the captured headers held a Content-Type and another header,
\* and the result carries the captured Content-Type.
C10_Witness ==
    /\ spc = "headers"
    /\ {"Content-Type", "X-Goog-Api-Client"} \subseteq DOMAIN session.headers
    /\ request_headers["Content-Type"] = session.headers["Content-Type"]

(***************************************************************************)
(* Claims about one chat or list_models call (checked under SpecChat).     *)
(***************************************************************************)
\* an HTTP status of the success class (2xx)
IsSuccessStatus(st) == st >= 200 /\ st < 300

\* the call failed with the error built from the status and body of an answer
IsUpstreamError(o) == o.kind = "raise" /\ o.status # 0

\* C11 as stated: a call that got a non-success status fails with the
\* upstream error carrying that status and the raw body, and a call that got
\* a success status does not fail with the upstream error.
C11_UpstreamErrorIffNonSuccess ==
    cpc = "done" =>
        IF IsSuccessStatus(response.status)
           THEN ~IsUpstreamError(outcome)
           ELSE /\ IsUpstreamError(outcome)
                /\ outcome.status = response.status
                /\ outcome.msg = response.body

\* C11, amended: a chat or list_models call that got a status other than 200
\* fails with the upstream error carrying that status and the raw body of
\* the answer and returns nothing; a call that got status 200 does not fail
\* with the upstream error.
C11_UpstreamErrorIffNot200 ==
    cpc = "done" =>
        IF response.status = 200
           THEN ~IsUpstreamError(outcome)
           ELSE /\ outcome.kind = "raise"
                /\ outcome.status = response.status
                /\ outcome.msg = response.body

\* list_models answered 403 "quota exceeded": the error has both
C11_Witness ==
    /\ cpc = "done"
    /\ call_op = "list_models"
    /\ response.status = 403
    /\ response.body = "quota exceeded"
    /\ outcome.kind = "raise"
    /\ outcome.status = 403
    /\ outcome.msg = "quota exceeded"

\* C12: chat answered with status 200 and an empty or absent candidate list
\* fails with an error whose kind differs from the kind of the error raised
\* for a refused request, so that the two can be told apart by kind.
C12_EmptyResponseDistinctKind ==
    (/\ cpc = "done"
     /\ call_op = "chat"
     /\ response.status = 200
     /\ GetCandidates(response) = <<>>)
        => /\ outcome.kind = "raise"
           /\ \A r \in ErrorResponses : outcome.exc # ApiError(r).exc

\* the text the claim describes: the texts of the text-bearing parts, in order
RECURSIVE ConcatTexts(_)
ConcatTexts(parts) ==
    IF Len(parts) = 0 THEN ""
    ELSE ConcatTexts(SubSeq(parts, 1, Len(parts) - 1))
         \o (IF parts[Len(parts)].has_text THEN parts[Len(parts)].text ELSE "")

\* what chat has to return for the answer r
ExpectedChatReturn(r) ==
    /\ outcome.kind = "return"
    /\ outcome.text = ConcatTexts(IF r.candidates[1].has_content
                                     THEN r.candidates[1].parts ELSE <<>>)
    /\ outcome.model = model
    /\ outcome.usage = (IF r.usage.has THEN r.usage.meta ELSE "{}")
    /\ (r.candidates[1].has_content
        /\ r.candidates[1].parts = <<[has_text |-> TRUE, text |-> "Hello, "],
                                     [has_text |-> TRUE, text |-> "world!"]>>)
           => outcome.text = "Hello, world!"

\* C13 as stated: chat answered with a success status and at least one
\* candidate returns the concatenated text of the first candidate's
\* text-bearing parts, the requested model name and the usage metadata.
C13_TextOfFirstCandidateOnSuccess ==
    (/\ cpc = "done"
     /\ call_op = "chat"
     /\ IsSuccessStatus(response.status)
     /\ response.has_candidates
     /\ response.candidates # <<>>)
        => ExpectedChatReturn(response)

\* C13, amended: chat answered with status 200 and at least one candidate
\* returns as text the concatenation, in their order, of the text of every
\* part of the first candidate that carries text (parts without text are
\* skipped, later candidates ignored), with the requested model name and the
\* usage metadata of the answer unchanged.
C13_TextOfFirstCandidateOn200 ==
    (/\ cpc = "done"
     /\ call_op = "chat"
     /\ response.status = 200
     /\ response.has_candidates
     /\ response.candidates # <<>>)
        => ExpectedChatReturn(response)

\* two candidates; the first has a part without text between its parts
C13_Witness ==
    /\ cpc = "done"
    /\ call_op = "chat"
    /\ response.status = 200
    /\ response.has_candidates
    /\ Len(response.candidates) = 2
    /\ response.candidates[1].parts = <<[has_text |-> TRUE, text |-> "Hello, "],
                                        [has_text |-> FALSE, text |-> ""]>>
    /\ response.candidates[2].parts = <<[has_text |-> TRUE, text |-> "world!"]>>
    /\ response.usage.has
    /\ outcome.kind = "return"
    /\ outcome.text = "Hello, "

\* C17: a chat or list_models call sends at most one request, and once it
\* has failed (upstream error, empty response) it is over, with that one
\* request sent and no other to come.
C17_NoAutomaticRetry ==
    /\ requests_sent <= 1
    /\ outcome.kind = "raise" => (cpc = "done" /\ requests_sent = 1)

\* a call that ended in the empty-response failure after its one request
C17_Witness ==
    /\ cpc = "done"
    /\ call_op = "chat"
    /\ outcome = NoCandidates
    /\ requests_sent = 1

(***************************************************************************)
(* Claims about normalize_token (checked under SpecNormalize).             *)
(***************************************************************************)
\* C14 as stated: expires_at of the result is data's expires_at copied if
\* data has one; else now + expires_in if data has expires_in; else the
\* instant of a parseable expiry; else absent, with no error.
C14_ExpiryPriorityAsStated ==
    npc = "done" =>
        IF raw.expires_at.has
           THEN ~token.raised /\ token.expires_at = raw.expires_at
        ELSE IF raw.expires_in.has
           THEN ~token.raised
                /\ (raw.expires_in.kind \in {"num", "intstr"}
                        => token.expires_at = Num(ntime + raw.expires_in.val))
        ELSE IF raw.expiry.has /\ raw.expiry.kind = "iso"
           THEN ~token.raised /\ token.expires_at = Num(raw.expiry.val)
        ELSE ~token.raised /\ token.expires_at = Absent

\* C14, amended: the same priority, with expires_in converted by int(): the
\* result is now + expires_in cut down to whole seconds, and the call raises
\* when expires_in is no number and no string of digits.
C14_ExpiryPriority ==
    npc = "done" =>
        IF raw.expires_at.has
           THEN ~token.raised /\ token.expires_at = raw.expires_at
        ELSE IF raw.expires_in.has
           THEN IF raw.expires_in.kind \in {"str", "null"}
                   THEN token.raised
                   ELSE /\ ~token.raised
                        /\ token.expires_at.kind = "num"
                        /\ token.expires_at.val % TicksPerSec = ntime % TicksPerSec
                        /\ LET secs == token.expires_at.val - ntime
                               given == raw.expires_in.val
                           IN  IF given >= 0
                                  THEN secs <= given /\ given < secs + TicksPerSec
                                  ELSE secs >= given /\ given > secs - TicksPerSec
        ELSE IF raw.expiry.has /\ raw.expiry.kind = "iso"
           THEN ~token.raised /\ token.expires_at = Num(raw.expiry.val)
        ELSE ~token.raised /\ token.expires_at = Absent

\* all three keys present: expires_at was copied, a bad expires_in ignored
C14_Witness ==
    /\ npc = "done"
    /\ raw.expires_at = Num(TicksPerSec)
    /\ raw.expires_in.kind = "str"
    /\ raw.expiry.kind = "iso"
    /\ ~token.raised
    /\ token.expires_at = Num(TicksPerSec)

(***************************************************************************)
(* Claims about find_existing_token (checked under SpecFind).              *)
(***************************************************************************)
\* the file parses as a JSON object
IsJsonObject(f) ==
    f.exists /\ f.readable /\ f.content \in {"obj_none", "obj_tok", "obj_tok_badexp"}

\* the file holds a valid token: a JSON object with a token key
IsValidToken(f) == IsJsonObject(f) /\ f.content \in {"obj_tok", "obj_tok_badexp"}

\* C15: find returns the first path in list order whose content is valid,
\* whatever the modification times; with two valid candidates of which the
\* later is newer, it returns the earlier.
C15_FirstValidInListOrder ==
    (fpc = "done" /\ \E p \in Paths : IsValidToken(cand_files[p]))
        => /\ ~found.raised
           /\ found.path \in Paths
           /\ IsValidToken(cand_files[found.path])
           /\ \A q \in Paths : q < found.path => ~IsValidToken(cand_files[q])

\* C16: find raises no error whatever the candidate files hold, returns a
\* path only if that file parsed as a JSON object with a token key, and
\* returns none exactly when no candidate is such a file.
C16_TolerantScan ==
    fpc = "done" =>
        /\ ~found.raised
        /\ found.path # 0 => IsValidToken(cand_files[found.path])
        /\ found.path = 0 <=> \A p \in Paths : ~IsValidToken(cand_files[p])

(***************************************************************************)
(* Claims about save_token (checked under SpecSave).                       *)
(***************************************************************************)
\* a user other than the owner can read a file of this mode
OthersCanRead(mode) == mode \cap {"gr", "or"} # {}

\* C18: whenever the file at the output path holds token data, whole or in
\* part, during a save, after a save and after a save that failed, nobody
\* but the owner can read it.
C18_TokenFileOwnerOnly ==
    (out_file.exists /\ out_file.content \in {"token", "partial"})
        => ~OthersCanRead(out_file.mode)

(***************************************************************************)
(* Claims about the session of a client (checked under SpecClient).        *)
(***************************************************************************)
\* C19: no call on the client or its session, no change the caller makes to
\* the mapping get_captured_headers returned, and no change of the session
\* or headers file on disk changes the session's access_token, headers,
\* endpoints or captured_at.
C19_SessionReadOnly ==
    [][/\ session'.access_token = session.access_token
       /\ session'.headers = session.headers
       /\ session'.endpoints = session.endpoints
       /\ session'.captured_at = session.captured_at]_vars

\* the caller changed the mapping it got, the files on disk changed, calls
\* were made and the connection closed: the session still has its headers
C19_Witness ==
    /\ returned_headers.returned
    /\ returned_headers.map # session.headers
    /\ session_file.kind = "object"
    /\ headers_file.exists
    /\ request_headers # EmptyMapping
    /\ last_op = "close"
    /\ Len(conns) = 1
    /\ session \in ClientSessions

(***************************************************************************)
(* Claims about the interactive loop (checked under SpecLoop).             *)
(***************************************************************************)
\* C20: an interrupt never gives up a request that was sent: when the loop
\* is being left or has ended, every request sent has reached its outcome.
C20_InterruptSparesPendingRequest ==
    lpc \in {"closing", "ended"} => finished = sent

(***************************************************************************)
(* Claims about failed calls and the connection (checked under SpecClient).*)
(***************************************************************************)
\* the latest call was a chat or list_models that failed
LastCallFailed ==
    last_op \in {"chat", "list_models"} /\ last_result.kind = "raise"

\* C22: a chat or list_models call that fails leaves the connection it used
\* open and held by the client; the next outbound call uses that same
\* connection and creates none; a connection stops being open only by close.
C22_FailureKeepsConnection ==
    /\ [](LastCallFailed =>
            /\ http_session # 0
            /\ conns[http_session].state = "open"
            /\ session_used = http_session)
    /\ [][(LastCallFailed /\ nops' = nops + 1
           /\ last_op' \in {"chat", "list_models"}) =>
            /\ Len(conns') = Len(conns)
            /\ http_session' = http_session
            /\ session_used' = http_session
            /\ conns'[http_session'].state = "open"]_vars
    /\ [][(\E i \in 1 .. Len(conns) :
              conns[i].state = "open" /\ conns'[i].state = "closed") =>
            last_op' = "close" /\ nops' = nops + 1]_vars

\* an upstream error, then an empty response on the same, single connection
C22_Witness ==
    /\ nops = 2
    /\ last_op = "chat"
    /\ last_result = NoCandidates
    /\ Len(conns) = 1
    /\ conns[1].state = "open"
    /\ http_session = 1
    /\ session_used = 1

(***************************************************************************)
(* Claims about the watcher and the external writer (checked under         *)
(* SpecWatch).                                                             *)
(***************************************************************************)
\* C21: whatever the external writer does to the candidate file between the
\* watcher's read and the extraction's read, a token that was persisted
\* comes from content with access_token or refresh_token, and watch does
\* not return success with nothing persisted.
C21_PersistedFromTokenContent ==
    /\ token_file.saved => HasTokenKey(token_file.content)
    /\ wret = "True" => token_file.saved

====
